---------------------------- MODULE Spec2Model ----------------------------
(***************************************************************************)
(* ConvMulFusion::ApplyImpl (onnxruntime/core/optimizer/conv_mul_fusion.cc) *)
(* as a state machine over a small graph IR.                                *)
(*                                                                          *)
(* A graph is a sequence of nodes (index = NodeIndex, enumeration order =   *)
(* index order), a set of live indices, the stored edge index, the          *)
(* initializer store (name -> TensorProto) and the declared graph outputs.  *)
(* Floating point element values are modelled by integers.                  *)
(***************************************************************************)
EXTENDS Integers, Sequences, FiniteSets, TLC

(***************************************************************************)
(* Bounds of the model.                                                     *)
(***************************************************************************)
\* nodes of a graph of the topology family
MaxNodes == 4
\* invocations of the pass by the pipeline on one graph
MaxRuns == 2
\* largest element of an input patch used to evaluate a Conv
MaxIn == 1

(***************************************************************************)
(* Program constants.                                                       *)
(***************************************************************************)
\* IsSupportedOptypeVersionAndDomain(node, "Conv", 1)
ConvSinceVersion == 1
\* IsSupportedOptypeVersionAndDomain(next_node, "Mul", 7)
MulSinceVersion == 7
\* conv_W_tensor_proto->dims_size() < 4
MinWeightRank == 4

VARIABLES
  nodes,          \* Seq of [op, ver, domain, provider, inputs, output]
  alive,          \* indices of the nodes graph.Nodes() enumerates
  edges,          \* stored edge index: set of [src, dst, dstArg]
  inits,          \* initializer store: name -> TensorProto (or NullProto)
  graphOutputs,   \* names declared as outputs of the graph
  removed_nodes,  \* the removal batch of the running ApplyImpl
  modified,       \* the caller's flag
  status,         \* "running", "OK", or the error ApplyImpl returned
  pc,             \* "recurse", "match", "commit", "done"
  cur,            \* index of the node the loop is at
  nrem,           \* number of batched removals already executed
  run,            \* which invocation of the pass this is
  outcome,        \* per node of this run: which exit of the loop body it took
  fusedLog,       \* the fusions done so far, oldest first
  modIn,          \* value of the flag when this ApplyImpl was called
  recMod,         \* a Recurse call of this ApplyImpl set the flag
  graph0          \* the graph the first invocation was given

vars == <<nodes, alive, edges, inits, graphOutputs, removed_nodes, modified,
          status, pc, cur, nrem, run, outcome, fusedLog, modIn, recMod,
          graph0>>

(***************************************************************************)
(* Small helpers.                                                           *)
(***************************************************************************)
Range(s) == {s[i] : i \in 1..Len(s)}

Min(S) == CHOOSE x \in S : \A y \in S : x <= y

RECURSIVE Prod(_, _)
\* product of dims[from..Len(dims)]
Prod(dims, from) ==
  IF from > Len(dims) THEN 1 ELSE dims[from] * Prod(dims, from + 1)

(***************************************************************************)
(* TensorProto and the Initializer algebra (core/optimizer/initializer.h).  *)
(***************************************************************************)
\* what a lookup yields when no tensor is behind the name
NullProto == [name |-> "", dtype |-> "null", dims |-> <<>>, data |-> <<>>]

\* Initializer::IsSupportedDataType: floating point element types only
IsSupportedDataType(proto) ==
  /\ proto # NullProto
  /\ proto.dtype \in {"float", "double"}

\* Initializer::Initializer(const TensorProto*): unpack dtype, dims, values
MakeInitializer(proto) ==
  [data_type |-> proto.dtype,
   dims      |-> proto.dims,
   size      |-> Prod(proto.dims, 1),
   data      |-> proto.data]

\* Initializer::scale_by_axis(other, axis): the buffer is cut in
\* n = size / num blocks of num = dims[axis] * ... * dims[rank-1] elements;
\* block i is multiplied by other[i], or by other[0] when other holds one value
scale_by_axis(self, other, axis) ==
  LET num == Prod(self.dims, axis + 1)
  IN  [self EXCEPT !.data =
         [p \in 1..self.size |->
            self.data[p] * other.data[IF other.size = 1
                                      THEN 1
                                      ELSE ((p - 1) \div num) + 1]]]

\* Initializer::mul(other): element by element over the flat buffers
mul(self, other) ==
  [self EXCEPT !.data = [p \in 1..self.size |-> self.data[p] * other.data[p]]]

\* Initializer::ToProto(TensorProto*): write the value buffer into a proto
\* that keeps its name, dtype and dims
ToProto(self, proto) == [proto EXCEPT !.data = self.data]

(***************************************************************************)
(* Graph IR primitives used by the pass (core/graph/graph.h, graph_utils).  *)
(***************************************************************************)
\* GetCompatibleExecutionProviders(): the providers the pass is declared for
CompatibleProviders == {"cpu"}

\* graph_utils::IsSupportedOptypeVersionAndDomain(node, op_type, version)
IsSupportedOptypeVersionAndDomain(node, op_type, version) ==
  /\ node.op = op_type
  /\ node.ver = version
  /\ node.domain = ""

\* graph_utils::IsSupportedProvider(node, compatible_providers)
IsSupportedProvider(node, compatible) == node.provider \in compatible

\* Node::GetOutputEdgesCount()
GetOutputEdgesCount(n) == Cardinality({e \in edges : e.src = n})

\* Node::GetInputEdgesCount()
GetInputEdgesCount(n) == Cardinality({e \in edges : e.dst = n})

\* Node::OutputNodesBegin() .. OutputNodesEnd(): the consumers the edge
\* index records for node n
OutputNodes(n) == {e.dst : e \in {x \in edges : x.src = n}}

\* *node.OutputNodesBegin(): the first recorded consumer
OutputNodesBegin(n) == Min(OutputNodes(n))

\* Graph::IsNodeOutputsInGraphOutputs(node)
IsNodeOutputsInGraphOutputs(node) == node.output \in graphOutputs

\* Graph::GetInitializedTensor(name, value): the bool it returns
HasInitializedTensor(name) == name \in DOMAIN inits

\* Graph::GetInitializedTensor(name, value): the pointer it stores in value
GetInitializedTensor(name) ==
  IF name \in DOMAIN inits THEN inits[name] ELSE NullProto

\* Graph::RemoveInitializedTensor(name)
RemoveInitializedTensor(store, name) ==
  [k \in (DOMAIN store) \ {name} |-> store[k]]

\* Graph::AddInitializedTensor(proto): bound under the proto's own name
AddInitializedTensor(store, proto) ==
  [k \in (DOMAIN store) \cup {proto.name} |->
     IF k = proto.name THEN proto ELSE store[k]]

\* Graph::GetNode(index) # nullptr
GetNode(n) == n \in alive

\* Graph::Resolve(): the edge index rebuilt from the nodes' input lists
BuildEdges(nds, live) ==
  LET slots == UNION {1..Len(nds[d].inputs) : d \in live}
  IN  {e \in [src : live, dst : live, dstArg : slots] :
         /\ e.dstArg <= Len(nds[e.dst].inputs)
         /\ nds[e.dst].inputs[e.dstArg] = nds[e.src].output}

(***************************************************************************)
(* The loop body of ApplyImpl, predicate by predicate.                      *)
(***************************************************************************)
\* lines 17-19: the node is a Conv this pass may rewrite, with one consumer
AnchorOK(n) ==
  /\ IsSupportedOptypeVersionAndDomain(nodes[n], "Conv", ConvSinceVersion)
  /\ IsSupportedProvider(nodes[n], CompatibleProviders)
  /\ GetOutputEdgesCount(n) = 1

\* FollowOnOK without the IsNodeOutputsInGraphOutputs test of line 26
FollowOnOK_noGraphOutputTest(n, m) ==
  /\ IsSupportedOptypeVersionAndDomain(nodes[m], "Mul", MulSinceVersion)
  /\ GetInputEdgesCount(m) = 1
  /\ nodes[m].provider = nodes[n].provider

\* lines 24-27: the consumer is a Mul fed by this Conv alone, not a graph
\* output, on the Conv's provider
FollowOnOK(n, m) ==
  /\ IsSupportedOptypeVersionAndDomain(nodes[m], "Mul", MulSinceVersion)
  /\ GetInputEdgesCount(m) = 1
  /\ ~IsNodeOutputsInGraphOutputs(nodes[m])
  /\ nodes[m].provider = nodes[n].provider

\* lines 43-51: dtype and rank conditions on weight W and scale S
TensorsOK(W, S) ==
  /\ IsSupportedDataType(W)
  /\ IsSupportedDataType(S)
  /\ W.dtype = S.dtype
  /\ Len(W.dims) >= MinWeightRank
  /\ IF Len(S.dims) = 0
     THEN TRUE
     ELSE /\ Len(S.dims) = Len(W.dims) - 1
          /\ W.dims[1] = S.dims[1]

\* ScaleDimsOK without the loop of lines 54-66
ScaleDimsOK_unchecked(S) == TRUE

\* lines 53-66: every dimension of the scale after the first is 1
ScaleDimsOK(S) ==
  IF Len(S.dims) # 0
  THEN \A i \in 2..Len(S.dims) : S.dims[i] = 1
  ELSE TRUE

\* line 72: is_3d
Is3d(n) == Len(nodes[n].inputs) = 3

\* BiasOK without the rank test of line 80
BiasOK_noRankTest(B, S) ==
  /\ IsSupportedDataType(B)
  /\ B.dtype = S.dtype
  /\ Len(B.dims) >= 1
  /\ IF Len(S.dims) # 0 THEN B.dims[1] = S.dims[1] ELSE TRUE

\* lines 78-80: dtype, rank and length conditions on the bias B
BiasOK(B, S) ==
  /\ IsSupportedDataType(B)
  /\ B.dtype = S.dtype
  /\ Len(B.dims) = 1
  /\ IF Len(S.dims) # 0 THEN B.dims[1] = S.dims[1] ELSE TRUE

\* NewWeight with the scale folded along axis 0 instead of axis 1
NewWeight_axis0(W, S) ==
  ToProto(scale_by_axis(MakeInitializer(W), MakeInitializer(S), 0), W)

\* NewWeight written into a fresh proto instead of a copy of W (line 98)
NewWeight_freshProto(W, S) ==
  ToProto(scale_by_axis(MakeInitializer(W), MakeInitializer(S), 1),
          [NullProto EXCEPT !.dtype = W.dtype])

\* lines 87, 98-99: the weight proto that replaces W
NewWeight(W, S) ==
  ToProto(scale_by_axis(MakeInitializer(W), MakeInitializer(S), 1), W)

\* NewBias without the else branch of lines 92-94
NewBias_scalarUnscaled(B, S) ==
  IF Len(S.dims) # 0
  THEN ToProto(mul(MakeInitializer(B), MakeInitializer(S)), B)
  ELSE B

\* lines 89-94, 106-107: the bias proto that replaces B
NewBias(B, S) ==
  IF Len(S.dims) # 0
  THEN ToProto(mul(MakeInitializer(B), MakeInitializer(S)), B)
  ELSE ToProto(scale_by_axis(MakeInitializer(B), MakeInitializer(S), 0), B)

\* ReplaceInitializers without the is_3d branch of lines 105-110
ReplaceInitializers_weightOnly(store, n, W, S, B) ==
  AddInitializedTensor(RemoveInitializedTensor(store, nodes[n].inputs[2]),
                       NewWeight(W, S))

\* lines 101-110: the store after the weight (and the bias) were replaced
ReplaceInitializers(store, n, W, S, B) ==
  LET s1 == AddInitializedTensor(
              RemoveInitializedTensor(store, nodes[n].inputs[2]),
              NewWeight(W, S))
  IN  IF Is3d(n)
      THEN AddInitializedTensor(
             RemoveInitializedTensor(s1, nodes[n].inputs[3]), NewBias(B, S))
      ELSE s1

\* RewireInputs with a loop that stops at the first input def it replaced
RewireInputs_firstOnly(inputs, mul_output_def, conv_output_def) ==
  [k \in 1..Len(inputs) |->
     IF /\ inputs[k] = mul_output_def
        /\ \A j \in 1..(k - 1) : inputs[j] # mul_output_def
     THEN conv_output_def
     ELSE inputs[k]]

\* lines 121-126: every input def of one consumer that is the Mul's output
\* becomes the Conv's output
RewireInputs(inputs, mul_output_def, conv_output_def) ==
  [k \in 1..Len(inputs) |->
     IF inputs[k] = mul_output_def THEN conv_output_def ELSE inputs[k]]

\* lines 115-127: the consumers the loop reaches, in edge order, before it
\* meets one that GetNode cannot resolve
Reached(m) ==
  LET dead == {c \in OutputNodes(m) : ~GetNode(c)}
  IN  IF dead = {} THEN OutputNodes(m)
      ELSE {c \in OutputNodes(m) : c < Min(dead)}

\* line 116-119: some recorded consumer of the Mul cannot be resolved
RewireFails(m) == \E c \in OutputNodes(m) : ~GetNode(c)

\* lines 112-127: the node list after the rewiring loop
Rewired(n, m) ==
  [i \in 1..Len(nodes) |->
     IF i \in Reached(m)
     THEN [nodes[i] EXCEPT !.inputs =
             RewireInputs(nodes[i].inputs, nodes[m].output, nodes[n].output)]
     ELSE nodes[i]]

(***************************************************************************)
(* The graphs the pass is run on.                                           *)
(***************************************************************************)
\* name of the output value of node i
OutName(i) == <<"n1", "n2", "n3", "n4", "n5", "n6">>[i]

\* a node without subgraphs
Node(op, ver, provider, inputs, output) ==
  [op |-> op, ver |-> ver, domain |-> "", provider |-> provider,
   inputs |-> inputs, output |-> output,
   subgraph |-> "none", subRounds |-> 0]

Proto(name, dtype, dims, data) ==
  [name |-> name, dtype |-> dtype, dims |-> dims, data |-> data]

\* Topology family: MaxNodes nodes, node i reading the output of node i-1
\* (prev) and possibly of node i-2 (prev2); "X" is the external graph input
\* and "Bq" a runtime input that is not an initializer.
Kinds == {"convB", "convN", "mulS", "mulS0", "mul2", "mulPP", "add", "add2",
          "ifMod"}

KindNode(kind, i) ==
  LET prev  == IF i = 1 THEN "X" ELSE OutName(i - 1)
      prev2 == IF i <= 2 THEN "X" ELSE OutName(i - 2)
      out   == OutName(i)
  IN  CASE kind = "convB" -> Node("Conv", ConvSinceVersion, "cpu", <<prev, "W", "B">>, out)
        [] kind = "convN" -> Node("Conv", ConvSinceVersion, "cpu", <<prev, "W2", "Bn">>, out)
        [] kind = "mulS"  -> Node("Mul", MulSinceVersion, "cpu", <<prev, "S">>, out)
        [] kind = "mulS0" -> Node("Mul", MulSinceVersion, "cpu", <<prev, "S0">>, out)
        [] kind = "mul2"  -> Node("Mul", MulSinceVersion, "cpu", <<prev2, "S">>, out)
        [] kind = "mulPP" -> Node("Mul", MulSinceVersion, "cpu", <<prev, prev2>>, out)
        [] kind = "add"   -> Node("Add", MulSinceVersion, "cpu", <<prev, prev>>, out)
        [] kind = "add2"  -> Node("Add", MulSinceVersion, "cpu", <<prev, prev2>>, out)
        [] kind = "ifMod" -> [Node("If", ConvSinceVersion, "cpu", <<prev>>, out)
                                EXCEPT !.subgraph = "ok", !.subRounds = 1]

TopologyStore ==
  [k \in {"W", "W2", "B", "Bn", "S", "S0"} |->
     CASE k = "W"  -> Proto("W", "float", <<2, 3, 1, 1>>, <<1, 2, 3, 4, 5, 6>>)
       [] k = "W2" -> Proto("W2", "float", <<2, 1, 1, 1>>, <<3, 4>>)
       [] k = "B"  -> Proto("B", "float", <<2>>, <<10, 20>>)
       [] k = "Bn" -> NullProto
       [] k = "S"  -> Proto("S", "float", <<2, 1, 1>>, <<2, 5>>)
       [] k = "S0" -> Proto("S0", "float", <<>>, <<3>>)]

\* what every invocation of ApplyImpl starts from
Start(nds, live, edg, store, gouts, flag) ==
  /\ nodes = nds
  /\ alive = live
  /\ edges = edg
  /\ inits = store
  /\ graphOutputs = gouts
  /\ removed_nodes = <<>>
  /\ modified = flag
  /\ modIn = flag
  /\ recMod = FALSE
  /\ status = "running"
  /\ pc = "recurse"
  /\ cur = Min(live)
  /\ nrem = 0
  /\ run = 1
  /\ outcome = [i \in 1..Len(nds) |-> "unvisited"]
  /\ fusedLog = <<>>
  /\ graph0 = [nodes |-> nds, alive |-> live, inits |-> store,
               graphOutputs |-> gouts]

InitTopology ==
  \E ks \in [1..MaxNodes -> Kinds], g \in {1, MaxNodes} :
    LET nds == [i \in 1..MaxNodes |-> KindNode(ks[i], i)]
    IN  /\ ks[1] \notin {"mul2", "mulPP", "add2", "mulS0"}
        /\ Start(nds, 1..MaxNodes, BuildEdges(nds, 1..MaxNodes),
                 TopologyStore, {OutName(g)}, FALSE)

\* Tensor family: Conv(X, W[, bias]) -> Mul(n1, S) -> Add(n2, n2) with the
\* weight, the scale and the bias drawn from the shapes, element types and
\* values below.
Dtypes == {"float", "double", "int32"}

WDims == {<<2, 3, 1, 1>>, <<2, 3, 1>>, <<2, 1, 1, 1, 1>>}

SDims == {<<>>, <<2, 1, 1>>, <<2>>, <<3, 1, 1>>, <<2, 1, 3>>, <<2, 1, 1, 1>>}

BDims == {<<2>>, <<3>>, <<2, 1>>}

ScaleVals == {0, 2, 3, 5}

WData(dims) == [k \in 1..Prod(dims, 1) |-> k]

BData(dims) == [k \in 1..Prod(dims, 1) |-> 10 * k]

SData(dims) ==
  IF dims \in {<<>>, <<2, 1, 1>>}
  THEN [1..Prod(dims, 1) -> ScaleVals]
  ELSE {[k \in 1..Prod(dims, 1) |-> IF k = 1 THEN 2 ELSE 3 * k - 1]}

\* the third input of the Conv: none, a runtime input, a name bound to no
\* tensor, or a bias tensor
BiasChoices ==
  {[kind |-> k, proto |-> NullProto] : k \in {"none", "runtime", "null"}} \cup
  {[kind |-> "tensor", proto |-> Proto("B", t, d, BData(d))] :
     t \in Dtypes, d \in BDims}

PipelineNodes(bias) ==
  <<Node("Conv", ConvSinceVersion, "cpu",
         CASE bias.kind = "none"    -> <<"X", "W">>
           [] bias.kind = "runtime" -> <<"X", "W", "Bq">>
           [] OTHER                 -> <<"X", "W", "B">>,
         OutName(1)),
    Node("Mul", MulSinceVersion, "cpu", <<OutName(1), "S">>, OutName(2)),
    Node("Add", MulSinceVersion, "cpu", <<OutName(2), OutName(2)>>, OutName(3))>>

PipelineStore(W, S, bias) ==
  [k \in {"W", "S"} \cup (IF bias.kind \in {"null", "tensor"} THEN {"B"} ELSE {}) |->
     CASE k = "W" -> W
       [] k = "S" -> S
       [] k = "B" -> bias.proto]

InitTensors ==
  \E wt \in Dtypes, wd \in WDims, st \in Dtypes, sd \in SDims, bias \in BiasChoices :
    \E sdata \in SData(sd) :
      LET nds == PipelineNodes(bias)
      IN  Start(nds, 1..3, BuildEdges(nds, 1..3),
                PipelineStore(Proto("W", wt, wd, WData(wd)),
                              Proto("S", st, sd, sdata), bias),
                {OutName(3)}, FALSE)

\* Attribute family: the same pipeline over tensors that fit, with the
\* operator versions, domains, providers, the Mul's input order, the third
\* node, the graph outputs and the caller's flag varied.  A "ghost" third
\* node is one the edge index still records although GetNode no longer
\* resolves it.
ThirdChoices ==
  {[kind |-> k, rounds |-> 0] : k \in {"add", "ghost", "broken"}} \cup
  {[kind |-> "if", rounds |-> r] : r \in 0..MaxRuns}

AttributeNodes(cv, cd, cp, mv, mp, swapped, third) ==
  <<[Node("Conv", cv, cp, <<"X", "W", "B">>, OutName(1)) EXCEPT !.domain = cd],
    Node("Mul", mv, mp,
         IF swapped THEN <<"S", OutName(1)>> ELSE <<OutName(1), "S">>,
         OutName(2)),
    CASE third.kind \in {"add", "ghost"} ->
           Node("Add", MulSinceVersion, "cpu", <<OutName(2), OutName(2)>>, OutName(3))
      [] third.kind = "if" ->
           [Node("If", ConvSinceVersion, "cpu", <<OutName(2)>>, OutName(3))
              EXCEPT !.subgraph = "ok", !.subRounds = third.rounds]
      [] third.kind = "broken" ->
           [Node("If", ConvSinceVersion, "cpu", <<OutName(2)>>, OutName(3))
              EXCEPT !.subgraph = "broken"]>>

AttributeStore ==
  [k \in {"W", "B", "S"} |-> TopologyStore[k]]

InitAttributes ==
  \E cv \in {ConvSinceVersion, ConvSinceVersion + 1}, cd \in {"", "com.microsoft"},
     cp \in {"cpu", "gpu"}, mv \in {MulSinceVersion, MulSinceVersion - 1},
     mp \in {"cpu", "gpu"}, swapped \in BOOLEAN, third \in ThirdChoices,
     gouts \in SUBSET {OutName(1), OutName(2), OutName(3)}, flag \in BOOLEAN :
    LET nds == AttributeNodes(cv, cd, cp, mv, mp, swapped, third)
    IN  Start(nds, IF third.kind = "ghost" THEN 1..2 ELSE 1..3,
              BuildEdges(nds, 1..3), AttributeStore, gouts, flag)

Init == InitTopology \/ InitTensors \/ InitAttributes

(***************************************************************************)
(* ApplyImpl, one action per exit of the loop body.                         *)
(***************************************************************************)
\* Advance leaving the loop where line 20, 28, 50, 64, 75, 81 says continue
Advance_break(result) ==
  /\ outcome' = [outcome EXCEPT ![cur] = result]
  /\ IF {i \in alive : i > cur} = {} \/ result # "fused"
     THEN /\ pc' = "commit"
          /\ cur' = cur
     ELSE /\ pc' = "recurse"
          /\ cur' = Min({i \in alive : i > cur})

\* the loop header: on to the next node graph.Nodes() enumerates, or out of
\* the loop to the removal batch
Advance(result) ==
  /\ outcome' = [outcome EXCEPT ![cur] = result]
  /\ IF {i \in alive : i > cur} = {}
     THEN /\ pc' = "commit"
          /\ cur' = cur
     ELSE /\ pc' = "recurse"
          /\ cur' = Min({i \in alive : i > cur})

\* the pointers the loop body holds for the node it is at
next_node == OutputNodesBegin(cur)
conv_W_tensor_proto == GetInitializedTensor(nodes[cur].inputs[2])
mul_B_tensor_proto == GetInitializedTensor(nodes[next_node].inputs[2])
\* conv_B_tensor_proto looked up under the name of the Conv's first input
conv_B_tensor_proto_firstInput ==
  IF Is3d(cur) THEN GetInitializedTensor(nodes[cur].inputs[1]) ELSE NullProto

conv_B_tensor_proto ==
  IF Is3d(cur) THEN GetInitializedTensor(nodes[cur].inputs[3]) ELSE NullProto

\* lines 17-66 let the node through
PatternOK ==
  /\ AnchorOK(cur)
  /\ FollowOnOK(cur, next_node)
  /\ TensorsOK(conv_W_tensor_proto, mul_B_tensor_proto)
  /\ ScaleDimsOK(mul_B_tensor_proto)

\* lines 72-84 let the node through
BiasReady ==
  IF Is3d(cur)
  THEN /\ HasInitializedTensor(nodes[cur].inputs[3])
       /\ conv_B_tensor_proto # NullProto
       /\ BiasOK(conv_B_tensor_proto, mul_B_tensor_proto)
  ELSE TRUE

\* line 15, Recurse returns OK: the pass has run on the node's subgraphs
RecurseOK ==
  /\ pc = "recurse"
  /\ status = "running"
  /\ nodes[cur].subgraph # "broken"
  /\ pc' = "match"
  /\ IF nodes[cur].subgraph = "ok" /\ nodes[cur].subRounds > 0
     THEN /\ modified' = TRUE
          /\ recMod' = TRUE
          /\ nodes' = [nodes EXCEPT ![cur].subRounds = @ - 1]
     ELSE UNCHANGED <<modified, recMod, nodes>>
  /\ UNCHANGED <<graph0, alive, edges, inits, graphOutputs, removed_nodes, status,
                 cur, nrem, run, outcome, fusedLog, modIn>>

\* RecurseError with the status of Recurse dropped instead of returned
RecurseError_swallowed ==
  /\ pc = "recurse"
  /\ status = "running"
  /\ nodes[cur].subgraph = "broken"
  /\ pc' = "match"
  /\ UNCHANGED <<graph0, nodes, alive, edges, inits, graphOutputs, removed_nodes,
                 modified, status, cur, nrem, run, outcome, fusedLog, modIn,
                 recMod>>

\* line 15, ORT_RETURN_IF_ERROR: the pass failed in a subgraph
RecurseError ==
  /\ pc = "recurse"
  /\ status = "running"
  /\ nodes[cur].subgraph = "broken"
  /\ status' = "SUBGRAPH_ERROR"
  /\ pc' = "done"
  /\ outcome' = [outcome EXCEPT ![cur] = "recurse_error"]
  /\ UNCHANGED <<graph0, nodes, alive, edges, inits, graphOutputs, removed_nodes,
                 modified, cur, nrem, run, fusedLog, modIn, recMod>>

\* lines 17-21
SkipAnchor ==
  /\ pc = "match"
  /\ status = "running"
  /\ ~AnchorOK(cur)
  /\ Advance("skip_anchor")
  /\ UNCHANGED <<graph0, nodes, alive, edges, inits, graphOutputs, removed_nodes,
                 modified, status, nrem, run, fusedLog, modIn, recMod>>

\* lines 23-29
SkipFollowOn ==
  /\ pc = "match"
  /\ status = "running"
  /\ AnchorOK(cur)
  /\ ~FollowOnOK(cur, next_node)
  /\ Advance("skip_follow_on")
  /\ UNCHANGED <<graph0, nodes, alive, edges, inits, graphOutputs, removed_nodes,
                 modified, status, nrem, run, fusedLog, modIn, recMod>>

\* lines 37-66
SkipTensors ==
  /\ pc = "match"
  /\ status = "running"
  /\ AnchorOK(cur)
  /\ FollowOnOK(cur, next_node)
  /\ ~(/\ TensorsOK(conv_W_tensor_proto, mul_B_tensor_proto)
       /\ ScaleDimsOK(mul_B_tensor_proto))
  /\ Advance("skip_tensors")
  /\ UNCHANGED <<graph0, nodes, alive, edges, inits, graphOutputs, removed_nodes,
                 modified, status, nrem, run, fusedLog, modIn, recMod>>

\* lines 72-75 and 78-82
SkipBias ==
  /\ pc = "match"
  /\ status = "running"
  /\ PatternOK
  /\ Is3d(cur)
  /\ \/ ~HasInitializedTensor(nodes[cur].inputs[3])
     \/ /\ conv_B_tensor_proto # NullProto
        /\ ~BiasOK(conv_B_tensor_proto, mul_B_tensor_proto)
  /\ Advance("skip_bias")
  /\ UNCHANGED <<graph0, nodes, alive, edges, inits, graphOutputs, removed_nodes,
                 modified, status, nrem, run, fusedLog, modIn, recMod>>

\* BiasNullError with the null pointer taken for a bias that does not fit
BiasNullError_skips ==
  /\ pc = "match"
  /\ status = "running"
  /\ PatternOK
  /\ Is3d(cur)
  /\ HasInitializedTensor(nodes[cur].inputs[3])
  /\ conv_B_tensor_proto = NullProto
  /\ Advance("skip_bias")
  /\ UNCHANGED <<graph0, nodes, alive, edges, inits, graphOutputs, removed_nodes,
                 modified, status, nrem, run, fusedLog, modIn, recMod>>

\* BiasNullError with the store put back to what the caller passed in
BiasNullError_rollsBack ==
  /\ pc = "match"
  /\ status = "running"
  /\ PatternOK
  /\ Is3d(cur)
  /\ HasInitializedTensor(nodes[cur].inputs[3])
  /\ conv_B_tensor_proto = NullProto
  /\ status' = "FAIL"
  /\ pc' = "done"
  /\ inits' = graph0.inits
  /\ outcome' = [outcome EXCEPT ![cur] = "bias_null"]
  /\ UNCHANGED <<graph0, nodes, alive, edges, graphOutputs, removed_nodes,
                 modified, cur, nrem, run, fusedLog, modIn, recMod>>

\* lines 76-77
BiasNullError ==
  /\ pc = "match"
  /\ status = "running"
  /\ PatternOK
  /\ Is3d(cur)
  /\ HasInitializedTensor(nodes[cur].inputs[3])
  /\ conv_B_tensor_proto = NullProto
  /\ status' = "FAIL"
  /\ pc' = "done"
  /\ outcome' = [outcome EXCEPT ![cur] = "bias_null"]
  /\ UNCHANGED <<graph0, nodes, alive, edges, inits, graphOutputs, removed_nodes,
                 modified, cur, nrem, run, fusedLog, modIn, recMod>>

\* what a fusion leaves in the log: the pair, the protos it read, the
\* consumers the edge index recorded for the Mul, and whether the rewiring
\* loop ran to its end
LogEntry(done) ==
  [run |-> run, conv |-> cur, mul |-> next_node,
   W |-> conv_W_tensor_proto, S |-> mul_B_tensor_proto,
   B |-> conv_B_tensor_proto, is_3d |-> Is3d(cur),
   consumers |-> OutputNodes(next_node), rewired |-> done]

\* Fuse with the Mul removed from the graph at once, inside the loop
Fuse_removesNow ==
  /\ pc = "match"
  /\ status = "running"
  /\ PatternOK
  /\ BiasReady
  /\ ~RewireFails(next_node)
  /\ inits' = ReplaceInitializers(inits, cur, conv_W_tensor_proto,
                                  mul_B_tensor_proto, conv_B_tensor_proto)
  /\ nodes' = Rewired(cur, next_node)
  /\ removed_nodes' = Append(removed_nodes, next_node)
  /\ alive' = alive \ {next_node}
  /\ fusedLog' = Append(fusedLog, LogEntry(TRUE))
  /\ Advance("fused")
  /\ UNCHANGED <<graph0, edges, graphOutputs, modified, status, nrem, run,
                 modIn, recMod>>

\* Fuse recording conv_node.Index() where line 129 records mul_node.Index()
Fuse_batchesAnchor ==
  /\ pc = "match"
  /\ status = "running"
  /\ PatternOK
  /\ BiasReady
  /\ ~RewireFails(next_node)
  /\ inits' = ReplaceInitializers(inits, cur, conv_W_tensor_proto,
                                  mul_B_tensor_proto, conv_B_tensor_proto)
  /\ nodes' = Rewired(cur, next_node)
  /\ removed_nodes' = Append(removed_nodes, cur)
  /\ fusedLog' = Append(fusedLog, LogEntry(TRUE))
  /\ Advance("fused")
  /\ UNCHANGED <<graph0, alive, edges, graphOutputs, modified, status, nrem, run,
                 modIn, recMod>>

\* lines 86-129
Fuse ==
  /\ pc = "match"
  /\ status = "running"
  /\ PatternOK
  /\ BiasReady
  /\ ~RewireFails(next_node)
  /\ inits' = ReplaceInitializers(inits, cur, conv_W_tensor_proto,
                                  mul_B_tensor_proto, conv_B_tensor_proto)
  /\ nodes' = Rewired(cur, next_node)
  /\ removed_nodes' = Append(removed_nodes, next_node)
  /\ fusedLog' = Append(fusedLog, LogEntry(TRUE))
  /\ Advance("fused")
  /\ UNCHANGED <<graph0, alive, edges, graphOutputs, modified, status, nrem, run,
                 modIn, recMod>>

\* lines 86-119: the initializers are replaced, then a consumer of the Mul
\* does not resolve
FuseRewireError ==
  /\ pc = "match"
  /\ status = "running"
  /\ PatternOK
  /\ BiasReady
  /\ RewireFails(next_node)
  /\ inits' = ReplaceInitializers(inits, cur, conv_W_tensor_proto,
                                  mul_B_tensor_proto, conv_B_tensor_proto)
  /\ nodes' = Rewired(cur, next_node)
  /\ fusedLog' = Append(fusedLog, LogEntry(FALSE))
  /\ status' = "INVALID_ARGUMENT"
  /\ pc' = "done"
  /\ outcome' = [outcome EXCEPT ![cur] = "rewire_error"]
  /\ UNCHANGED <<graph0, alive, edges, graphOutputs, removed_nodes, modified, cur,
                 nrem, run, modIn, recMod>>

\* Graph::RemoveNode(index): the node is no longer enumerated or resolved
RemoveNode(live, index) == live \ {index}

\* lines 132-134, one iteration
CommitRemoval ==
  /\ pc = "commit"
  /\ nrem < Len(removed_nodes)
  /\ alive' = RemoveNode(alive, removed_nodes[nrem + 1])
  /\ nrem' = nrem + 1
  /\ UNCHANGED <<graph0, nodes, edges, inits, graphOutputs, removed_nodes, modified,
                 status, pc, cur, run, outcome, fusedLog, modIn, recMod>>

\* FlagAfter setting the flag whatever the batch holds
FlagAfter_always(flag, batch) == TRUE

\* FlagAfter assigning the flag instead of only raising it
FlagAfter_overwrite(flag, batch) == batch # <<>>

\* lines 136-138: the flag ApplyImpl leaves
FlagAfter(flag, batch) == IF batch # <<>> THEN TRUE ELSE flag

\* lines 136-140
Finish ==
  /\ pc = "commit"
  /\ nrem = Len(removed_nodes)
  /\ modified' = FlagAfter(modified, removed_nodes)
  /\ status' = "OK"
  /\ pc' = "done"
  /\ UNCHANGED <<graph0, nodes, alive, edges, inits, graphOutputs, removed_nodes,
                 cur, nrem, run, outcome, fusedLog, modIn, recMod>>

\* the pipeline: a pass that reported a modification is run again on the
\* resolved graph, with the flag cleared
Rerun ==
  /\ pc = "done"
  /\ status = "OK"
  /\ modified
  /\ run < MaxRuns
  /\ edges' = BuildEdges(nodes, alive)
  /\ removed_nodes' = <<>>
  /\ modified' = FALSE
  /\ modIn' = FALSE
  /\ recMod' = FALSE
  /\ status' = "running"
  /\ pc' = "recurse"
  /\ cur' = Min(alive)
  /\ nrem' = 0
  /\ run' = run + 1
  /\ outcome' = [i \in 1..Len(nodes) |-> "unvisited"]
  /\ UNCHANGED <<graph0, nodes, alive, inits, graphOutputs, fusedLog>>

Next ==
  \/ RecurseOK
  \/ RecurseError
  \/ SkipAnchor
  \/ SkipFollowOn
  \/ SkipTensors
  \/ SkipBias
  \/ BiasNullError
  \/ Fuse
  \/ FuseRewireError
  \/ CommitRemoval
  \/ Finish
  \/ Rerun

Spec == Init /\ [][Next]_vars

(***************************************************************************)
(* Reading a graph.                                                         *)
(***************************************************************************)
\* values that come from outside the graph at run time
ExternalInputs == {"X", "Bq"}

\* every input of every live node is produced by a live node, bound in the
\* initializer store, or an external input
NoDanglingInput ==
  \A n \in alive : \A k \in 1..Len(nodes[n].inputs) :
    LET x == nodes[n].inputs[k]
    IN  \/ x \in ExternalInputs
        \/ x \in DOMAIN inits
        \/ \E m \in alive : nodes[m].output = x

\* the fusions of the running invocation
FusedThisRun == {i \in 1..Len(fusedLog) : fusedLog[i].run = run}

Returned(st) == pc = "done" /\ status = st

\* index along dimension k of the element at (row-major) position p
IndexAlong(dims, p, k) == ((p - 1) \div Prod(dims, k + 1)) % dims[k]

RECURSIVE Sum(_, _)
\* f[1] + ... + f[n]
Sum(f, n) == IF n = 0 THEN 0 ELSE f[n] + Sum(f, n - 1)

\* output channel o (from 0) of a Conv with weight W and bias B (NullProto:
\* none) at one output position, patch being the input values under the kernel
ConvOut(W, B, patch, o) ==
  LET num == Prod(W.dims, 2)
  IN  Sum([j \in 1..num |-> W.data[o * num + j] * patch[j]], num)
      + (IF B = NullProto THEN 0 ELSE B.data[o + 1])

Patches(W) == [1..Prod(W.dims, 2) -> (-1)..MaxIn]

(***************************************************************************)
(* C1: when ApplyImpl has returned OK after at least one fusion, every      *)
(* input of every remaining node is the output of a remaining node, a bound *)
(* initializer or an external input, none is the output of a removed Mul;   *)
(* and whenever a batched RemoveNode is about to run, no other remaining    *)
(* node has that node's output among its inputs.                            *)
(***************************************************************************)
C1_GraphIntegrity ==
  /\ (Returned("OK") /\ FusedThisRun # {}) =>
       /\ NoDanglingInput
       /\ \A i \in 1..Len(fusedLog) : \A n \in alive :
            nodes[fusedLog[i].mul].output \notin Range(nodes[n].inputs)
  /\ (pc = "commit" /\ nrem < Len(removed_nodes)) =>
       \A n \in alive \ {removed_nodes[nrem + 1]} :
         nodes[removed_nodes[nrem + 1]].output \notin Range(nodes[n].inputs)

\* a run returned OK having removed a Mul whose consumer read it in two slots
C1_Witness ==
  /\ Returned("OK")
  /\ \E i \in FusedThisRun :
       /\ fusedLog[i].mul \notin alive
       /\ \E c \in fusedLog[i].consumers :
            /\ c \in alive
            /\ Len(graph0.nodes[c].inputs) = 2
            /\ graph0.nodes[c].inputs[1] = graph0.nodes[c].inputs[2]
            /\ nodes[c].inputs[1] = nodes[fusedLog[i].conv].output

(***************************************************************************)
(* C2: a fusion with a per-channel (non-scalar) scale s stores a weight     *)
(* whose every element with dimension-0 index o is the old element times    *)
(* s[o] and, if the Conv has a bias, a bias with bias[o] = B[o] * s[o]; the *)
(* Conv with the stored tensors computes, on every bounded integer patch,   *)
(* what the old Conv followed by the Mul computed; the Mul is in the        *)
(* removal batch and is gone once ApplyImpl has returned OK.                *)
(***************************************************************************)
C2_Step ==
  (/\ pc = "match"
   /\ status = "running"
   /\ PatternOK
   /\ BiasReady
   /\ Len(mul_B_tensor_proto.dims) # 0) =>
    LET W  == conv_W_tensor_proto
        B  == conv_B_tensor_proto
        s  == mul_B_tensor_proto.data
        W2 == inits'[nodes[cur].inputs[2]]
        B2 == IF Is3d(cur) THEN inits'[nodes[cur].inputs[3]] ELSE NullProto
    IN  /\ W2.dims = W.dims
        /\ \A p \in 1..Prod(W.dims, 1) :
             W2.data[p] = W.data[p] * s[IndexAlong(W.dims, p, 1) + 1]
        /\ Is3d(cur) =>
             \A o \in 1..B.dims[1] : B2.data[o] = B.data[o] * s[o]
        /\ \A patch \in Patches(W) : \A o \in 0..(W.dims[1] - 1) :
             ConvOut(W2, B2, patch, o) = ConvOut(W, B, patch, o) * s[o + 1]
        /\ status' = "running" => next_node \in Range(removed_nodes')

C3_Scenario(sdims) ==
  /\ graph0.nodes =
       <<Node("Conv", ConvSinceVersion, "cpu", <<"X", "W", "B">>, "n1"),
         Node("Mul", MulSinceVersion, "cpu", <<"n1", "S">>, "n2"),
         Node("Add", MulSinceVersion, "cpu", <<"n2", "n2">>, "n3")>>
  /\ graph0.alive = 1..3
  /\ graph0.graphOutputs = {"n3"}
  /\ graph0.inits = [k \in {"W", "B", "S"} |->
       CASE k = "W" -> Proto("W", "float", <<2, 3, 1, 1>>, <<1, 2, 3, 4, 5, 6>>)
         [] k = "B" -> Proto("B", "float", <<2>>, <<10, 20>>)
         [] k = "S" -> Proto("S", "float", sdims, <<2, 5>>)]

\* the fused graph the scenario expects
C3_Fused ==
  /\ inits["W"] = Proto("W", "float", <<2, 3, 1, 1>>, <<2, 4, 6, 20, 25, 30>>)
  /\ inits["B"] = Proto("B", "float", <<2>>, <<20, 100>>)
  /\ alive = {1, 3}
  /\ nodes[3].inputs = <<"n1", "n1">>

C4_Case ==
  /\ pc = "match"
  /\ status = "running"
  /\ nodes[cur].op = "Conv"
  /\ IF GetOutputEdgesCount(cur) # 1
     THEN TRUE
     ELSE \/ GetInputEdgesCount(next_node) # 1
          \/ IsNodeOutputsInGraphOutputs(nodes[next_node])

C4_NonInterference ==
  [][C4_Case =>
       /\ UNCHANGED <<nodes, alive, edges, inits, graphOutputs, removed_nodes,
                      fusedLog>>
       /\ status' = "running"]_vars

\* in one run the loop has passed a Conv with two output edges, and a
\* supported Conv whose only consumer is a Mul, fed by it alone, that fits
\* in every respect but is a graph output; the graph is as it was given
C4_Witness ==
  /\ \E n \in alive :
       /\ outcome[n] = "skip_follow_on"
       /\ GetInputEdgesCount(OutputNodesBegin(n)) = 1
       /\ nodes[OutputNodesBegin(n)].op = "Mul"
       /\ nodes[OutputNodesBegin(n)].ver = MulSinceVersion
       /\ nodes[OutputNodesBegin(n)].provider = nodes[n].provider
       /\ IsNodeOutputsInGraphOutputs(nodes[OutputNodesBegin(n)])
  /\ \E n \in alive :
       /\ outcome[n] = "skip_anchor"
       /\ nodes[n].op = "Conv"
       /\ GetOutputEdgesCount(n) = 2
  /\ nodes = graph0.nodes
  /\ inits = graph0.inits

(***************************************************************************)
(* C5: no Conv whose own output is a declared graph output is ever fused:   *)
(* its initializers stay as they are and its consumer is not removed.       *)
(***************************************************************************)
C5_NoFusionOfGraphOutputAnchor ==
  \A i \in 1..Len(fusedLog) :
    ~IsNodeOutputsInGraphOutputs(nodes[fusedLog[i].conv])

(***************************************************************************)
(* C6: when the loop is at a Conv whose weight W and whose consumer's scale *)
(* S are bound tensors and S has a rank that is neither 0 nor rank(W) - 1,  *)
(* or a leading dimension other than W's (S not scalar), or a dimension     *)
(* after the first that is not 1, or another dtype than W, or W has a rank  *)
(* below 4, the loop body rewrites nothing.                                 *)
(***************************************************************************)
C6_BadTensors(W, S) ==
  \/ Len(S.dims) \notin {0, Len(W.dims) - 1}
  \/ /\ Len(S.dims) # 0
     /\ Len(W.dims) # 0
     /\ S.dims[1] # W.dims[1]
  \/ \E i \in 2..Len(S.dims) : S.dims[i] # 1
  \/ S.dtype # W.dtype
  \/ Len(W.dims) < 4

C6_Case ==
  /\ pc = "match"
  /\ status = "running"
  /\ nodes[cur].op = "Conv"
  /\ GetOutputEdgesCount(cur) = 1
  /\ Len(nodes[next_node].inputs) >= 2
  /\ conv_W_tensor_proto # NullProto
  /\ mul_B_tensor_proto # NullProto
  /\ C6_BadTensors(conv_W_tensor_proto, mul_B_tensor_proto)

C6_ShapeGating ==
  [][C6_Case =>
       /\ UNCHANGED <<nodes, alive, edges, inits, graphOutputs, removed_nodes,
                      fusedLog>>
       /\ status' = "running"]_vars

\* the loop has passed a Conv over a float [2,3,1,1] weight whose Mul, fit in
\* every other respect, scales by a float tensor of shape [2,1,3]
C6_Witness ==
  /\ outcome[1] = "skip_tensors"
  /\ inits["W"].dims = <<2, 3, 1, 1>>
  /\ inits["S"].dims = <<2, 1, 3>>
  /\ inits["W"].dtype = "float"
  /\ inits["S"].dtype = "float"
  /\ inits = graph0.inits
  /\ nodes = graph0.nodes

(***************************************************************************)
(* C7: idempotence.                                                         *)
(***************************************************************************)
\* C7 as stated: a second run on the graph the first run left fuses nothing
\* at this graph level and raises the flag for nothing at this level
C7_Original ==
  (run = 2 /\ Returned("OK")) =>
    /\ FusedThisRun = {}
    /\ modified => recMod

\* C7 amended: a later run fuses only a Conv that the run before fused, and
\* with a Mul that consumed the output of the Mul removed then (a chain
\* Conv -> Mul -> Mul, one Mul folded per run); a later run that fuses
\* nothing leaves the flag false unless a subgraph raised it
C7_Amended ==
  /\ \A i \in 1..Len(fusedLog) :
       fusedLog[i].run > 1 =>
         \E j \in 1..(i - 1) :
           /\ fusedLog[j].run = fusedLog[i].run - 1
           /\ fusedLog[j].conv = fusedLog[i].conv
           /\ fusedLog[j].rewired
           /\ fusedLog[i].mul \in fusedLog[j].consumers
  /\ (run > 1 /\ Returned("OK") /\ FusedThisRun = {}) => (modified = recMod)

\* a second run returned OK having fused the Conv again, with the second Mul
\* of a chain
C7_Witness ==
  /\ run = 2
  /\ Returned("OK")
  /\ modified
  /\ ~recMod
  /\ \E i \in FusedThisRun : graph0.nodes[fusedLog[i].mul].inputs[1] # nodes[fusedLog[i].conv].output

(***************************************************************************)
(* C8: a Conv with a third input that does not resolve to a tensor.         *)
(***************************************************************************)
\* C8 as stated: a Conv is never skipped for a third input whose name does
\* not resolve to a bound initializer (the pass aborts instead)
C8_Original ==
  \A n \in 1..Len(nodes) :
    outcome[n] = "skip_bias" =>
      /\ HasInitializedTensor(nodes[n].inputs[3])
      /\ GetInitializedTensor(nodes[n].inputs[3]) # NullProto

\* C8 amended: for a Conv that passed the checks of lines 17-66 and has a
\* third input, the pass aborts with FAIL exactly when the store reports the
\* name as present and yields no tensor for it; when the store does not hold
\* the name the Conv is skipped, without error and without any change
C8_Step ==
  (/\ pc = "match"
   /\ status = "running"
   /\ PatternOK
   /\ Is3d(cur)) =>
    /\ (/\ HasInitializedTensor(nodes[cur].inputs[3])
        /\ conv_B_tensor_proto = NullProto) =>
         /\ status' = "FAIL"
         /\ pc' = "done"
    /\ ~HasInitializedTensor(nodes[cur].inputs[3]) =>
         /\ status' = "running"
         /\ outcome'[cur] = "skip_bias"
         /\ UNCHANGED <<nodes, alive, inits, removed_nodes, fusedLog>>
    /\ status' = "FAIL" =>
         /\ HasInitializedTensor(nodes[cur].inputs[3])
         /\ conv_B_tensor_proto = NullProto

C8_Amended == [][C8_Step]_vars

\* the pass has aborted at a Conv whose bias name is bound to no tensor
C8_Witness ==
  /\ Returned("FAIL")
  /\ outcome[cur] = "bias_null"
  /\ Is3d(cur)
  /\ HasInitializedTensor(nodes[cur].inputs[3])
  /\ inits[nodes[cur].inputs[3]] = NullProto

(***************************************************************************)
(* C9: when ApplyImpl has returned OK the flag is true if and only if it    *)
(* was true on entry, a Recurse call raised it, or a Mul was fused and      *)
(* removed; the removal batch is non-empty exactly when a Mul was fused and *)
(* removed; and a replaced initializer or a rewired input implies the flag. *)
(***************************************************************************)
C9_ModifiedFlag ==
  Returned("OK") =>
    /\ modified = (modIn \/ recMod \/ removed_nodes # <<>>)
    /\ (removed_nodes # <<>>) =
         (\E i \in FusedThisRun : fusedLog[i].mul \notin alive)
    /\ FusedThisRun # {} => modified
    /\ (/\ run = 1
        /\ \/ inits # graph0.inits
           \/ \E n \in 1..Len(nodes) : nodes[n].inputs # graph0.nodes[n].inputs)
        => modified

\* a run that fused nothing and recursed into no modified subgraph returned
\* OK with the flag still set as the caller passed it
C9_Witness ==
  /\ Returned("OK")
  /\ run = 1
  /\ modIn
  /\ ~recMod
  /\ removed_nodes = <<>>
  /\ modified

(***************************************************************************)
(* C10: a fusion with a rank-0 scale c multiplies every element of the      *)
(* weight by c; without a bias the store keeps its names and every other    *)
(* tensor; with a bias every bias element is multiplied by c; the Mul is    *)
(* put in the removal batch and is gone once ApplyImpl has returned OK.     *)
(***************************************************************************)
C10_Step ==
  (/\ pc = "match"
   /\ status = "running"
   /\ PatternOK
   /\ BiasReady
   /\ Len(mul_B_tensor_proto.dims) = 0) =>
    LET W     == conv_W_tensor_proto
        B     == conv_B_tensor_proto
        c     == mul_B_tensor_proto.data[1]
        wname == nodes[cur].inputs[2]
        bname == IF Is3d(cur) THEN nodes[cur].inputs[3] ELSE wname
    IN  /\ DOMAIN inits' = DOMAIN inits
        /\ inits'[wname].data = [p \in 1..Prod(W.dims, 1) |-> W.data[p] * c]
        /\ Is3d(cur) =>
             inits'[bname].data = [p \in 1..B.dims[1] |-> B.data[p] * c]
        /\ \A k \in (DOMAIN inits) \ {wname, bname} : inits'[k] = inits[k]
        /\ status' = "running" =>
             removed_nodes' = Append(removed_nodes, next_node)

C10_ScalarScale ==
  /\ [][C10_Step]_vars
  /\ [](Returned("OK") =>
          \A i \in FusedThisRun :
            Len(fusedLog[i].S.dims) = 0 => fusedLog[i].mul \notin alive)

\* a Conv without bias was fused with the scalar 3 and the run returned OK
C10_Witness ==
  /\ Returned("OK")
  /\ \E i \in FusedThisRun :
       /\ ~fusedLog[i].is_3d
       /\ fusedLog[i].S.dims = <<>>
       /\ fusedLog[i].S.data = <<3>>
       /\ fusedLog[i].mul \notin alive
       /\ inits["W"].data = [p \in 1..6 |-> 3 * p]
       /\ DOMAIN inits = {"W", "S"}

(***************************************************************************)
(* C11: while the loop over the nodes is running no node leaves the graph:  *)
(* every Mul fused so far in the run is only in the removal batch and is    *)
(* still enumerated and resolved; a node leaves the graph only in the       *)
(* removal loop, after every node was visited, and only if it is in the     *)
(* batch; and when ApplyImpl has returned OK the nodes gone from the graph  *)
(* are exactly the Muls fused.                                              *)
(***************************************************************************)
C11_Step ==
  /\ pc \in {"recurse", "match"} => alive' = alive
  /\ alive' # alive =>
       /\ pc = "commit"
       /\ \A n \in alive : outcome[n] # "unvisited"
       /\ alive' \subseteq alive
       /\ (alive \ alive') \subseteq Range(removed_nodes)

C11_DeferredRemoval ==
  /\ [][C11_Step]_vars
  /\ [](pc \in {"recurse", "match"} =>
          /\ \A i \in FusedThisRun : fusedLog[i].mul \in alive
          /\ \A k \in 1..Len(removed_nodes) : removed_nodes[k] \in alive
          /\ nrem = 0)
  /\ [](Returned("OK") =>
          /\ Range(removed_nodes) = {fusedLog[i].mul : i \in FusedThisRun}
          /\ Range(removed_nodes) \cap alive = {}
          /\ run = 1 => graph0.alive \ alive = Range(removed_nodes)
          /\ graph0.alive \ alive =
               {fusedLog[i].mul : i \in 1..Len(fusedLog)})

\* the loop is at a node behind a Mul it fused earlier in this run, the Mul
\* itself was visited after its fusion and is still in the graph
C11_Witness ==
  /\ pc = "match"
  /\ status = "running"
  /\ removed_nodes # <<>>
  /\ removed_nodes[1] \in alive
  /\ outcome[removed_nodes[1]] = "skip_anchor"
  /\ cur > removed_nodes[1]
  /\ nodes[cur].op = "Conv"

(***************************************************************************)
(* C12: a fusion at the Conv the loop is at leaves every initializer that   *)
(* any other node of the graph takes as an input with the value it had      *)
(* before the fusion, also when that node names the Conv's weight or bias.  *)
(***************************************************************************)
C12_Step ==
  (/\ pc = "match"
   /\ status = "running"
   /\ PatternOK
   /\ BiasReady) =>
    \A n \in alive \ {cur} :
      \A k \in Range(nodes[n].inputs) \cap DOMAIN inits :
        /\ k \in DOMAIN inits'
        /\ inits'[k] = inits[k]

C12_OtherConsumersUnaffected == [][C12_Step]_vars

(***************************************************************************)
(* C13: a fusion keeps the names bound in the initializer store and the     *)
(* name, dtype and dims of every tensor in it; the weight and the bias of   *)
(* the Conv stay bound under their names and every other initializer, the   *)
(* Mul's scale among them, keeps its value too.  Hence the store always has *)
(* the names, dtypes and dims it was given.                                 *)
(***************************************************************************)
C13_Step ==
  (/\ pc = "match"
   /\ status = "running"
   /\ PatternOK
   /\ BiasReady) =>
    LET wname == nodes[cur].inputs[2]
        bname == IF Is3d(cur) THEN nodes[cur].inputs[3] ELSE wname
        sname == nodes[next_node].inputs[2]
    IN  /\ DOMAIN inits' = DOMAIN inits
        /\ \A k \in DOMAIN inits :
             /\ inits'[k].name = inits[k].name
             /\ inits'[k].dtype = inits[k].dtype
             /\ inits'[k].dims = inits[k].dims
             /\ Len(inits'[k].data) = Len(inits[k].data)
        /\ inits'[wname].name = wname
        /\ inits'[bname].name = bname
        /\ inits'[sname] = inits[sname]
        /\ \A k \in (DOMAIN inits) \ {wname, bname} : inits'[k] = inits[k]

C13_StoreMetadataKept ==
  /\ [][C13_Step]_vars
  /\ [](/\ DOMAIN inits = DOMAIN graph0.inits
        /\ \A k \in DOMAIN inits :
             /\ inits[k].name = graph0.inits[k].name
             /\ inits[k].dtype = graph0.inits[k].dtype
             /\ inits[k].dims = graph0.inits[k].dims)

\* a Conv over a double weight with a bias was fused and the run returned
\* OK: weight and bias hold new values, the scale and the names are as given
C13_Witness ==
  /\ Returned("OK")
  /\ \E i \in FusedThisRun :
       /\ fusedLog[i].is_3d
       /\ fusedLog[i].W.dtype = "double"
       /\ inits["W"].data # graph0.inits["W"].data
       /\ inits["B"].data # graph0.inits["B"].data
       /\ inits["S"] = graph0.inits["S"]
       /\ DOMAIN inits = {"W", "B", "S"}

(***************************************************************************)
(* C14: when the node the loop is at fails a test of lines 17-84 that is    *)
(* not the null-pointer test (it is not a version 1 Conv of the default     *)
(* domain on a compatible provider with one output edge; or its consumer is *)
(* not a version 7 Mul with one input edge, on the same provider, that is   *)
(* no graph output; or weight or scale is no initializer, of an unsupported *)
(* or different dtype, or of shapes that do not fit; or the third input is  *)
(* no initializer or a tensor of the wrong dtype, rank or length), the loop *)
(* body returns no error, leaves the initializer store, every input list,   *)
(* the removal batch and the set of nodes as they are, and the loop goes on *)
(* with the next node in enumeration order, or ends if there is none.       *)
(***************************************************************************)
C14_BiasFails(B, S) ==
  IF B = NullProto
  THEN FALSE
  ELSE IF B.dtype \notin {"float", "double"} \/ B.dtype # S.dtype
       THEN TRUE
       ELSE IF Len(B.dims) # 1
            THEN TRUE
            ELSE Len(S.dims) # 0 /\ B.dims[1] # S.dims[1]

C14_Case ==
  /\ pc = "match"
  /\ status = "running"
  /\ IF \/ nodes[cur].op # "Conv"
        \/ nodes[cur].ver # ConvSinceVersion
        \/ nodes[cur].domain # ""
        \/ nodes[cur].provider \notin CompatibleProviders
        \/ GetOutputEdgesCount(cur) # 1
     THEN TRUE
     ELSE IF \/ nodes[next_node].op # "Mul"
             \/ nodes[next_node].ver # MulSinceVersion
             \/ nodes[next_node].domain # ""
             \/ GetInputEdgesCount(next_node) # 1
             \/ nodes[next_node].output \in graphOutputs
             \/ nodes[next_node].provider # nodes[cur].provider
          THEN TRUE
          ELSE IF \/ conv_W_tensor_proto = NullProto
                  \/ mul_B_tensor_proto = NullProto
                  \/ conv_W_tensor_proto.dtype \notin {"float", "double"}
                  \/ mul_B_tensor_proto.dtype \notin {"float", "double"}
                  \/ C6_BadTensors(conv_W_tensor_proto, mul_B_tensor_proto)
               THEN TRUE
               ELSE IF Len(nodes[cur].inputs) # 3
                    THEN FALSE
                    ELSE IF nodes[cur].inputs[3] \notin DOMAIN inits
                         THEN TRUE
                         ELSE C14_BiasFails(inits[nodes[cur].inputs[3]],
                                            mul_B_tensor_proto)

C14_Step ==
  C14_Case =>
    /\ status' = "running"
    /\ UNCHANGED <<inits, removed_nodes, alive, edges, graphOutputs, fusedLog,
                   modified>>
    /\ \A n \in 1..Len(nodes) : nodes'[n].inputs = nodes[n].inputs
    /\ outcome'[cur] \in {"skip_anchor", "skip_follow_on", "skip_tensors",
                          "skip_bias"}
    /\ IF \E i \in alive : i > cur
       THEN /\ pc' = "recurse"
            /\ cur' > cur
            /\ cur' \in alive
            /\ \A i \in alive : ~(cur < i /\ i < cur')
       ELSE pc' = "commit"

C14_SkipLeavesGraph == [][C14_Step]_vars

\* a Conv was skipped for a bias of the wrong length, the loop went on over
\* the nodes behind it and the run returned OK on the graph as it was given
C14_Witness ==
  /\ Returned("OK")
  /\ run = 1
  /\ outcome[1] = "skip_bias"
  /\ HasInitializedTensor(nodes[1].inputs[3])
  /\ inits[nodes[1].inputs[3]].dims = <<3>>
  /\ inits[nodes[1].inputs[3]].dtype = inits["S"].dtype
  /\ outcome[2] = "skip_anchor"
  /\ outcome[3] = "skip_anchor"
  /\ nodes = graph0.nodes
  /\ inits = graph0.inits
  /\ removed_nodes = <<>>
  /\ alive = graph0.alive

(***************************************************************************)
(* C15: a Conv whose third input is bound to a tensor is fused only if that *)
(* bias has the dtype of the scale, rank 1 and, when the scale is not of    *)
(* rank 0, a length equal to the scale's leading dimension; when the bias   *)
(* fails one of these the loop body skips the Conv and the store keeps the  *)
(* weight and the bias as they were.                                        *)
(***************************************************************************)
C15_BiasFits(B, S) ==
  /\ B.dtype = S.dtype
  /\ Len(B.dims) = 1
  /\ Len(S.dims) # 0 => B.dims[1] = S.dims[1]

C15_Step ==
  (/\ pc = "match"
   /\ status = "running"
   /\ PatternOK
   /\ Len(nodes[cur].inputs) = 3
   /\ nodes[cur].inputs[3] \in DOMAIN inits) =>
    LET wname == nodes[cur].inputs[2]
        bname == nodes[cur].inputs[3]
    IN  /\ inits'[wname] # inits[wname] =>
             /\ inits[bname] # NullProto
             /\ C15_BiasFits(inits[bname], mul_B_tensor_proto)
        /\ (/\ inits[bname] # NullProto
            /\ ~C15_BiasFits(inits[bname], mul_B_tensor_proto)) =>
             /\ outcome'[cur] = "skip_bias"
             /\ status' = "running"
             /\ inits' = inits
             /\ UNCHANGED <<nodes, alive, removed_nodes, fusedLog>>

C15_BiasGating ==
  /\ [][C15_Step]_vars
  /\ [](\A i \in 1..Len(fusedLog) :
          fusedLog[i].is_3d =>
            /\ fusedLog[i].B # NullProto
            /\ C15_BiasFits(fusedLog[i].B, fusedLog[i].S))

\* the loop has passed a Conv that fits a [2,1,1] scale in every respect
\* but for a bias of the scale's dtype and of shape [2,1], and nothing was
\* rewritten
C15_Witness ==
  /\ outcome[1] = "skip_bias"
  /\ "B" \in DOMAIN inits
  /\ inits["B"].dims = <<2, 1>>
  /\ inits["B"].dtype = inits["S"].dtype
  /\ inits["S"].dims = <<2, 1, 1>>
  /\ inits = graph0.inits
  /\ nodes = graph0.nodes
  /\ fusedLog = <<>>

(***************************************************************************)
(* C16: within one call of ApplyImpl the loop takes the nodes the graph     *)
(* enumerates in enumeration order, each once: a node gets its outcome when *)
(* the loop is at it, once, and the loop then moves to the next enumerated  *)
(* node.  For each node Recurse runs first and the tests of line 17 on run  *)
(* after it returned OK.  When Recurse returns an error ApplyImpl returns   *)
(* it at once: nothing is matched, replaced, rewired or removed for that    *)
(* node or any node behind it.  At an OK return every node was visited.     *)
(***************************************************************************)
C16_Step ==
  /\ (pc = "recurse" /\ status = "running") =>
       /\ outcome[cur] = "unvisited"
       /\ cur' = cur
       /\ UNCHANGED <<inits, alive, edges, removed_nodes, fusedLog>>
       /\ \A n \in 1..Len(nodes) : nodes'[n].inputs = nodes[n].inputs
       /\ IF nodes[cur].subgraph = "broken"
          THEN /\ pc' = "done"
               /\ status' \notin {"running", "OK"}
               /\ outcome'[cur] = "recurse_error"
               /\ \A n \in 1..Len(nodes) : n # cur => outcome'[n] = outcome[n]
          ELSE /\ pc' = "match"
               /\ status' = "running"
               /\ outcome' = outcome
  /\ (pc = "match" /\ status = "running") =>
       /\ outcome[cur] = "unvisited"
       /\ outcome'[cur] # "unvisited"
       /\ nodes[cur].subgraph # "broken"
       /\ \A n \in 1..Len(nodes) : n # cur => outcome'[n] = outcome[n]
       /\ pc' = "recurse" =>
            /\ cur' \in alive
            /\ cur' > cur
            /\ \A i \in alive : ~(cur < i /\ i < cur')
       /\ pc' = "commit" => \A i \in alive : i <= cur
  /\ (pc \in {"commit", "done"} /\ run' = run) => outcome' = outcome

C16_VisitOrder ==
  /\ [][C16_Step]_vars
  /\ [](pc \in {"recurse", "match"} =>
          /\ cur \in alive
          /\ \A n \in alive : (n < cur) = (outcome[n] # "unvisited"))
  /\ []((pc = "match" /\ run = 1 /\ graph0.nodes[cur].subgraph = "ok"
           /\ graph0.nodes[cur].subRounds > 0) =>
          /\ recMod
          /\ modified
          /\ nodes[cur].subRounds = graph0.nodes[cur].subRounds - 1)
  /\ [](Returned("OK") =>
          \A n \in alive \cup Range(removed_nodes) : outcome[n] # "unvisited")
  /\ []((pc = "done" /\ status \notin {"running", "OK"}) =>
          /\ \A n \in alive : n > cur => outcome[n] = "unvisited"
          /\ outcome[cur] \in {"recurse_error", "bias_null", "rewire_error"}
          /\ nrem = 0)

\* a run over MaxNodes nodes, one of them owning a subgraph the pass
\* modified, has returned OK with every node visited and a Conv fused
C16_Witness ==
  /\ Returned("OK")
  /\ run = 1
  /\ Len(nodes) = MaxNodes
  /\ \A n \in 1..MaxNodes : outcome[n] # "unvisited"
  /\ \E n \in 2..MaxNodes :
       /\ graph0.nodes[n].subgraph = "ok"
       /\ graph0.nodes[n].subRounds = 1
       /\ nodes[n].subRounds = 0
       /\ outcome[n] = "skip_anchor"
  /\ recMod
  /\ FusedThisRun # {}

(***************************************************************************)
(* C17: when ApplyImpl has returned an error, no node behind the one the    *)
(* loop was at has been examined and no node has been removed; for every    *)
(* fusion completed earlier the store still binds the weight and the bias   *)
(* it installed (unless a later fusion replaced the same name) and no       *)
(* consumer of the fused Mul has the Mul's output among its inputs; and     *)
(* every input of every node is the output of a node of the graph, a bound  *)
(* initializer or an external input.                                        *)
(***************************************************************************)
C17_Aborted == pc = "done" /\ status \notin {"running", "OK"}

C17_LastFor(i, slot) ==
  \A j \in (i + 1)..Len(fusedLog) :
    nodes[fusedLog[j].conv].inputs[slot] # nodes[fusedLog[i].conv].inputs[slot]

C17_AbortKeepsCommitted ==
  C17_Aborted =>
    /\ \A n \in alive : n > cur => outcome[n] = "unvisited"
    /\ nrem = 0
    /\ run = 1 => alive = graph0.alive
    /\ \A k \in 1..Len(removed_nodes) : removed_nodes[k] \in alive
    /\ \A i \in 1..Len(fusedLog) :
         fusedLog[i].rewired =>
           /\ C17_LastFor(i, 2) =>
                inits[nodes[fusedLog[i].conv].inputs[2]] =
                  NewWeight(fusedLog[i].W, fusedLog[i].S)
           /\ (fusedLog[i].is_3d /\ C17_LastFor(i, 3)) =>
                inits[nodes[fusedLog[i].conv].inputs[3]] =
                  NewBias(fusedLog[i].B, fusedLog[i].S)
           /\ \A c \in fusedLog[i].consumers :
                nodes[fusedLog[i].mul].output \notin Range(nodes[c].inputs)
    /\ NoDanglingInput

\* the pass fused a Conv with a bias, went on, and aborted at a later Conv
\* whose bias is bound to no tensor: the first Conv's weight and bias are
\* the scaled ones, its Mul is still in the graph and has no reader left
C17_Witness ==
  /\ Returned("FAIL")
  /\ run = 1
  /\ \E i \in FusedThisRun :
       /\ fusedLog[i].conv < cur
       /\ fusedLog[i].is_3d
       /\ fusedLog[i].consumers # {}
       /\ fusedLog[i].mul \in alive
       /\ inits[nodes[fusedLog[i].conv].inputs[2]] # fusedLog[i].W
       /\ inits[nodes[fusedLog[i].conv].inputs[3]] # fusedLog[i].B
       /\ \A n \in alive :
            nodes[fusedLog[i].mul].output \notin Range(nodes[n].inputs)
  /\ modified = modIn

(***************************************************************************)
(* C18: on a graph in which every consumer the edge index records is a node *)
(* the graph resolves, every name that a node takes as an input and the     *)
(* store reports as present is bound to a tensor, and no node owns a        *)
(* subgraph in which the pass fails, no step of the loop returns an error,  *)
(* the loop keeps the graph that way, and ApplyImpl returns nothing but OK. *)
(***************************************************************************)
C18_WellFormed ==
  /\ \A e \in edges : e.dst \in alive
  /\ \A n \in alive : \A k \in Range(nodes[n].inputs) \cap DOMAIN inits :
       inits[k] # NullProto
  /\ \A n \in alive : nodes[n].subgraph # "broken"

\* the same of the graph the first call was given
C18_GivenWellFormed ==
  /\ graph0.alive = 1..Len(graph0.nodes)
  /\ \A n \in graph0.alive :
       \A k \in Range(graph0.nodes[n].inputs) \cap DOMAIN graph0.inits :
         graph0.inits[k] # NullProto
  /\ \A n \in graph0.alive : graph0.nodes[n].subgraph # "broken"

C18_Step ==
  (pc \in {"recurse", "match"} /\ C18_WellFormed) =>
    /\ status' = "running"
    /\ pc' # "done"
    /\ pc' \in {"recurse", "match"} => C18_WellFormed'

C18_WellFormedReturnsOK ==
  /\ [][C18_Step]_vars
  /\ [](C18_GivenWellFormed =>
          /\ status \in {"running", "OK"}
          /\ pc \in {"recurse", "match"} => C18_WellFormed
          /\ \A n \in 1..Len(nodes) :
               outcome[n] \notin {"bias_null", "rewire_error", "recurse_error"})

\* a graph of MaxNodes nodes in which every edge and every name resolves
\* was run through the pass twice, a Conv with a bias was fused, and the
\* second call has returned OK
C18_Witness ==
  /\ C18_GivenWellFormed
  /\ Len(nodes) = MaxNodes
  /\ run = MaxRuns
  /\ Returned("OK")
  /\ \E i \in 1..Len(fusedLog) :
       /\ fusedLog[i].is_3d
       /\ fusedLog[i].consumers # {}
       /\ fusedLog[i].mul \notin alive

(***************************************************************************)
(* C19: the removal batch of a call never holds an index twice and never    *)
(* holds a Conv fused in the call (it holds Muls only); so every RemoveNode *)
(* of the removal loop is given a node that is still in the graph, and no   *)
(* consumer rewired in the call has the output of a batched node among its  *)
(* inputs.                                                                  *)
(***************************************************************************)
C19_Step ==
  (pc = "commit" /\ nrem < Len(removed_nodes)) =>
    /\ removed_nodes[nrem + 1] \in alive
    /\ alive' = alive \ {removed_nodes[nrem + 1]}
    /\ Cardinality(alive') = Cardinality(alive) - 1

C19_Batch ==
  /\ \A i, j \in 1..Len(removed_nodes) :
       i # j => removed_nodes[i] # removed_nodes[j]
  /\ \A k \in 1..Len(removed_nodes) :
       /\ nodes[removed_nodes[k]].op = "Mul"
       /\ \A i \in FusedThisRun : fusedLog[i].conv # removed_nodes[k]
  /\ \A i \in FusedThisRun :
       fusedLog[i].rewired =>
         \A c \in fusedLog[i].consumers \ Range(removed_nodes) :
           \A k \in 1..Len(removed_nodes) :
             nodes[removed_nodes[k]].output \notin Range(nodes[c].inputs)

C19_BatchDistinct ==
  /\ [][C19_Step]_vars
  /\ []C19_Batch

\* a call that fused two Convs has run its removal loop over a batch of two
\* different Muls and returned OK, both Convs still in the graph
C19_Witness ==
  /\ Returned("OK")
  /\ Len(removed_nodes) = 2
  /\ removed_nodes[1] # removed_nodes[2]
  /\ nrem = 2
  /\ Range(removed_nodes) \cap alive = {}
  /\ \A i \in FusedThisRun : fusedLog[i].conv \in alive
  /\ Cardinality(FusedThisRun) = 2

====
